---- MODULE Spec2Model ----
(***************************************************************************)
(* Model of opentracing_instrumentation/client_hooks/_dbapi2.py: the       *)
(* DB API v2 tracing wrappers (db_span, ConnectionFactory,                 *)
(* ConnectionWrapper, ContextManagerConnectionWrapper, CursorWrapper).     *)
(*                                                                         *)
(* Python strings are sequences of one-character strings, so that strip,   *)
(* find, slicing, '%s:%s' formatting and str() are computed rather than    *)
(* assumed.  Python values that reach the wrappers are tagged records.     *)
(* Every wrapper method is one action; the events it causes (span start,   *)
(* real driver call, span finish) are recorded, in order, in call.trace.   *)
(***************************************************************************)
EXTENDS Integers, Sequences, FiniteSets, TLC

VARIABLES
    ambient,   \* TRUE iff get_current_span() returns a span
    factory,   \* the ConnectionFactory: _connect_func_name, _wrapper_ctor
    conn,      \* the connection wrapper the caller holds (or NoConn)
    cur,       \* the cursor wrapper the caller holds (or NoCursor)
    spans,     \* every span started so far, in start order
    call,      \* the last wrapper call: its inputs, event trace and outcome
    ncalls     \* number of instrumented wrapper calls made so far

vars == <<ambient, factory, conn, cur, spans, call, ncalls>>

(***************************************************************************)
(* Bounds of the model.                                                    *)
(***************************************************************************)
\* longest generated SQL statement (characters)
MaxLen == 3
\* longest generated parameter list
MaxParams == 2
\* longest generated positional-argument tuple of connect() / cursor()
MaxArgs == 1
\* number of instrumented wrapper calls in one behaviour
MaxCalls == 3

(***************************************************************************)
(* Python values.                                                          *)
(***************************************************************************)
None == [t |-> "None"]

\* NO_ARG = object(): a sentinel distinct from every caller value
NO_ARG == [t |-> "NO_ARG"]

\* a list of ints (one parameter sequence)
PyList(s) == [t |-> "list", v |-> s]

\* a list of lists of ints (executemany's seq_of_parameters)
PyListList(s) == [t |-> "listlist", v |-> s]

\* a 2-tuple (args, kwargs); kwargs is a dict kept in insertion order as a
\* sequence of <<key, value>> pairs with distinct keys
PyPair(args, kwargs) == [t |-> "pair", args |-> args, kwargs |-> kwargs]

\* Python truth value of the values that reach an `if x:` of this module
Truthy(v) ==
    CASE v.t = "None" -> FALSE
      [] v.t = "NO_ARG" -> TRUE
      [] v.t = "list" -> Len(v.v) > 0
      [] v.t = "listlist" -> Len(v.v) > 0
      [] v.t = "pair" -> TRUE

Return(v) == [kind |-> "return", val |-> v]
Raise(e) == [kind |-> "raise", val |-> e]

(***************************************************************************)
(* Strings.                                                                *)
(***************************************************************************)
\* A character that a string literal here cannot spell is written as the
\* name of its code point: VT is the one character U+000B, NBSP is U+00A0.
VT == "U+000B"
NBSP == "U+00A0"

\* characters removed by str.strip() with no argument: every character c of
\* a Python 3 str with c.isspace() (the six ASCII ones, which are also what
\* a Python 2 byte str strips, the separators U+001C..U+001F, and the
\* Unicode spaces)
Whitespace ==
    {" ", "\t", "\n", VT, "\f", "\r",
     "U+001C", "U+001D", "U+001E", "U+001F", "U+0085", NBSP, "U+1680",
     "U+2000", "U+2001", "U+2002", "U+2003", "U+2004", "U+2005", "U+2006",
     "U+2007", "U+2008", "U+2009", "U+200A", "U+2028", "U+2029", "U+202F",
     "U+205F", "U+3000"}

RECURSIVE LStrip(_)
LStrip(s) ==
    IF s # <<>> /\ Head(s) \in Whitespace THEN LStrip(Tail(s)) ELSE s

RECURSIVE RStrip(_)
RStrip(s) ==
    IF s # <<>> /\ s[Len(s)] \in Whitespace
    THEN RStrip(SubSeq(s, 1, Len(s) - 1))
    ELSE s

\* str.strip()
Strip(s) == RStrip(LStrip(s))

\* str.find(c) for a one-character c: 0-based index of the first c, or -1
Find(s, c) ==
    IF \E i \in 1..Len(s) : s[i] = c
    THEN (CHOOSE i \in 1..Len(s) : s[i] = c /\ \A j \in 1..(i - 1) : s[j] # c) - 1
    ELSE -1

\* s[0:n] for 0 <= n
Slice0(s, n) == SubSeq(s, 1, IF n < Len(s) THEN n ELSE Len(s))

\* '%s:%s' % (a, b)
Fmt2(a, b) == a \o <<":">> \o b

Digit(d) ==
    CASE d = 0 -> "0" [] d = 1 -> "1" [] d = 2 -> "2" [] d = 3 -> "3"
      [] d = 4 -> "4" [] d = 5 -> "5" [] d = 6 -> "6" [] d = 7 -> "7"
      [] d = 8 -> "8" [] d = 9 -> "9"

\* str(n) / repr(n) of a non-negative int
RECURSIVE IntStr(_)
IntStr(n) == IF n < 10 THEN <<Digit(n)>> ELSE IntStr(n \div 10) \o <<Digit(n % 10)>>

\* ', '.join(parts)
RECURSIVE JoinComma(_)
JoinComma(parts) ==
    IF parts = <<>> THEN <<>>
    ELSE IF Len(parts) = 1 THEN parts[1]
    ELSE parts[1] \o <<",", " ">> \o JoinComma(Tail(parts))

\* repr of a list of ints: [], [1], [1, 0]
ListRepr(s) == <<"[">> \o JoinComma([i \in 1..Len(s) |-> IntStr(s[i])]) \o <<"]">>

\* repr of a tuple of ints: (), (1,), (1, 0)
TupleRepr(s) ==
    IF Len(s) = 1 THEN <<"(">> \o IntStr(s[1]) \o <<",", ")">>
    ELSE <<"(">> \o JoinComma([i \in 1..Len(s) |-> IntStr(s[i])]) \o <<")">>

\* repr of a dict with str keys and int values: {}, {'host': 1}
DictRepr(kw) ==
    <<"{">>
    \o JoinComma([i \in 1..Len(kw) |->
                    <<"'">> \o kw[i][1] \o <<"'", ":", " ">> \o IntStr(kw[i][2])])
    \o <<"}">>

\* str(v) for the values that are tagged
PyStr(v) ==
    CASE v.t = "None" -> <<"N", "o", "n", "e">>
      [] v.t = "list" -> ListRepr(v.v)
      [] v.t = "listlist" ->
            <<"[">> \o JoinComma([i \in 1..Len(v.v) |-> ListRepr(v.v[i])]) \o <<"]">>
      [] v.t = "pair" ->
            <<"(">> \o TupleRepr(v.args) \o <<",", " ">> \o DictRepr(v.kwargs) \o <<")">>

(***************************************************************************)
(* Module constants and the names used by the wrappers.                    *)
(***************************************************************************)
COMMIT == <<"c", "o", "m", "m", "i", "t">>
ROLLBACK == <<"r", "o", "l", "l", "b", "a", "c", "k">>

\* the module_name the factory and the wrappers were constructed with
ModuleName == <<"m", "o", "d">>

BeginTransaction ==
    <<"b", "e", "g", "i", "n", "_", "t", "r", "a", "n", "s", "a", "c", "t", "i", "o", "n">>

SprocPrefix == <<"s", "p", "r", "o", "c", ":">>

\* tag keys
TagSql == "sql"
TagParams == "sql.params"
TagConn == "sql.conn"
TagCursor == "sql.cursor"

\* the empty dict()
NoTags == <<>>

(***************************************************************************)
(* db_span                                                                 *)
(***************************************************************************)
\* add_sql_tag: the comparison is made on the statement as passed, untrimmed
add_sql_tag(sql_statement) ==
    ~(sql_statement = COMMIT \/ sql_statement = ROLLBACK)

\* operation, had the first space been looked for in the untrimmed statement
operation_mut_nostrip(sql_statement) ==
    IF sql_statement = COMMIT \/ sql_statement = ROLLBACK
    THEN sql_statement
    ELSE LET space_idx == Find(sql_statement, " ")
         IN IF space_idx = -1 THEN <<>> ELSE Slice0(sql_statement, space_idx)

\* the operation token of the span name
operation(sql_statement) ==
    LET statement == Strip(sql_statement)
    IN IF sql_statement = COMMIT \/ sql_statement = ROLLBACK
       THEN sql_statement
       ELSE LET space_idx == Find(statement, " ")
            IN IF space_idx = -1 THEN <<>> ELSE Slice0(statement, space_idx)

\* sql_tag, had the trimmed statement been compared with commit / rollback
sql_tag_mut_stripped_compare(sql_statement) ==
    LET statement == Strip(sql_statement)
    IN IF ~(statement = COMMIT \/ statement = ROLLBACK)
       THEN TagSql :> statement
       ELSE NoTags

\* tags['sql'] = statement, when add_sql_tag
sql_tag(sql_statement) ==
    IF add_sql_tag(sql_statement) THEN TagSql :> Strip(sql_statement) ELSE NoTags

\* params_tag, had the test been `is not None` instead of truthiness
params_tag_mut_not_none(sql_parameters) ==
    IF sql_parameters # None THEN TagParams :> PyStr(sql_parameters) ELSE NoTags

\* tags['sql.params'] = str(sql_parameters), when sql_parameters is truthy
params_tag(sql_parameters) ==
    IF Truthy(sql_parameters) THEN TagParams :> PyStr(sql_parameters) ELSE NoTags

\* tags['sql.conn'] = str(connect_params), when connect_params is truthy
conn_tag(connect_params) ==
    IF Truthy(connect_params) THEN TagConn :> PyStr(connect_params) ELSE NoTags

\* tags['sql.cursor'] = str(cursor_params), when cursor_params is truthy
cursor_tag(cursor_params) ==
    IF Truthy(cursor_params) THEN TagCursor :> PyStr(cursor_params) ELSE NoTags

\* span.start_child(operation_name, tags): the span, usable as a scope
start_child(operation_name, tags) ==
    [kind |-> "span", name |-> operation_name, tags |-> tags]

\* a real no-op scope (an instance of a context manager that does nothing)
NoopScope == [kind |-> "noop"]

\* what db_span returns when there is no current span: the function
\* empty_ctx_mgr itself, not the context manager a call of it would give
EmptyCtxMgrFunction == [kind |-> "function"]

\* db_span(sql_statement, module_name, sql_parameters, connect_params,
\*         cursor_params), with module_name = ModuleName
db_span(sql_statement, sql_parameters, connect_params, cursor_params) ==
    IF ~ambient
    THEN EmptyCtxMgrFunction
    ELSE start_child(
             Fmt2(ModuleName, operation(sql_statement)),
             sql_tag(sql_statement) @@ params_tag(sql_parameters)
                 @@ conn_tag(connect_params) @@ cursor_tag(cursor_params))

\* func_span(name): a span named name under the current span, or a no-op
\* scope when there is none
func_span(name) ==
    IF ~ambient THEN NoopScope ELSE start_child(name, NoTags)

(***************************************************************************)
(* `with scope: return <body>`                                             *)
(***************************************************************************)
\* exception types the `with` statement raises for an object that is not a
\* context manager: AttributeError before Python 3.11, TypeError from 3.11
WithErrors == {"AttributeError", "TypeError"}

RealEvent(op, args, kwargs, out) ==
    [e |-> "real", op |-> op, args |-> args, kwargs |-> kwargs, out |-> out]

StartEvent(i) == [e |-> "start", span |-> i]
FinishEvent(i, err) == [e |-> "finish", span |-> i, error |-> err]

\* body is [events, outcome]: the real calls the block makes and how it ends.
\* `with scope:` for a scope that is a context manager.  A span is entered,
\* the block runs, and the span's exit marks it failed when the block raised,
\* finishes it, and suppresses nothing.
WithScope(scope, body) ==
    CASE scope.kind = "noop" ->
            [trace |-> body.events, outcome |-> body.outcome, spans |-> spans]
      [] scope.kind = "span" ->
            LET i == Len(spans) + 1
                err == body.outcome.kind = "raise"
            IN [trace |-> <<StartEvent(i)>> \o body.events \o <<FinishEvent(i, err)>>,
                outcome |-> body.outcome,
                spans |-> Append(spans, [name |-> scope.name, tags |-> scope.tags,
                                         finished |-> TRUE, error |-> err])]

\* `with scope:` for what db_span returns.  A function object has no
\* __enter__/__exit__: the statement raises werr and the block never runs.
With(scope, body, werr) ==
    IF scope.kind = "function"
    THEN [trace |-> <<>>, outcome |-> Raise(werr), spans |-> spans]
    ELSE WithScope(scope, body)

(***************************************************************************)
(* The driver and the caller (inputs of the actions).                      *)
(***************************************************************************)
SeqsUpTo(A, n) == UNION {[1..k -> A] : k \in 0..n}

Host == <<"h", "o", "s", "t">>
Passwd == <<"p", "a", "s", "s", "w", "d">>
Password == <<"p", "a", "s", "s", "w", "o", "r", "d">>
KwKeys == {Host, Passwd, Password}

HasKey(kw, k) == \E i \in 1..Len(kw) : kw[i][1] = k

\* every keyword mapping over KwKeys (distinct keys, in the caller's order)
AllKwargs ==
    {kw \in SeqsUpTo(KwKeys \X {1}, Cardinality(KwKeys)) :
        \A i, j \in 1..Len(kw) : kw[i][1] = kw[j][1] => i = j}

AllArgs == SeqsUpTo({1}, MaxArgs)

Select1 == <<"S", "E", "L", "E", "C", "T", " ", "1">>
Alphabet == {"a", " ", "\t"}

\* SQL texts: every short text over Alphabet, and some fixed ones
Statements ==
    SeqsUpTo(Alphabet, MaxLen)
    \cup {COMMIT, ROLLBACK, COMMIT \o <<" ">>, <<" ">> \o COMMIT, Select1,
          <<"\t">> \o Select1 \o <<" ">>,
          <<VT, "a", " ", "b">>, <<"a", " ", VT>>, <<"a", VT>>,
          <<NBSP, "a", " ", "b", "U+2028">>}

\* params of execute / callproc: omitted, None, or a list of ints
Params == {NO_ARG, None} \cup {PyList(s) : s \in SeqsUpTo({0, 1}, MaxParams)}

\* seq_of_parameters of executemany
ParamSeqs == {PyListList(s) : s \in SeqsUpTo({<<>>, <<1>>}, MaxParams)}

ProcNames == {<<"p">>, <<"p", " ", "q">>}

\* exceptions of the driver, and what its calls return
DriverErrors == {"OperationalError"}
RetVals == {"None", "True"}
Outcomes(vals) == {Return(v) : v \in vals} \cup {Raise(e) : e \in DriverErrors}

\* (exc, value, tb) handed to __exit__: no exception, or one raised in the block
NoExcInfo == <<None, None, None>>
ExcInfo ==
    <<[t |-> "type", id |-> "ValueError"], [t |-> "exc", id |-> "ValueError"],
      [t |-> "traceback"]>>
ExcInfos == {NoExcInfo, ExcInfo}

\* connect functions: one with a __name__, one without (named by its str())
ConnectFuncs ==
    {[has_name |-> TRUE, name |-> <<"c", "o", "n", "n", "e", "c", "t">>,
      str |-> <<"<", "f", ">">>],
     [has_name |-> FALSE, name |-> <<>>, str |-> <<"<", "F", ">">>]}

NoConn == [kind |-> "none"]
NoCursor == [kind |-> "none"]
NoCall == [op |-> "none", in |-> <<>>, trace |-> <<>>, outcome |-> Return("None")]

(***************************************************************************)
(* ConnectionFactory                                                       *)
(***************************************************************************)
\* ConnectionFactory.__init__(connect_func, module_name, conn_wrapper_ctor)
ConnectionFactory_init(connect_func, conn_wrapper_ctor) ==
    [connect_func_name |->
         IF connect_func.has_name
         THEN Fmt2(ModuleName, connect_func.name)
         ELSE Fmt2(ModuleName, connect_func.str),
     wrapper_ctor |->
         IF conn_wrapper_ctor # "None" THEN conn_wrapper_ctor ELSE "ConnectionWrapper"]

\* del d[k]
DelKey(kw, k) ==
    LET i == CHOOSE j \in 1..Len(kw) : kw[j][1] = k
    IN SubSeq(kw, 1, i - 1) \o SubSeq(kw, i + 1, Len(kw))

\* redact, had the keys been deleted from kwargs itself instead of a copy
redact_mut_inplace(kwargs) ==
    LET d1 == IF HasKey(kwargs, Passwd) THEN DelKey(kwargs, Passwd) ELSE kwargs
        d2 == IF HasKey(d1, Password) THEN DelKey(d1, Password) ELSE d1
    IN [safe_kwargs |-> d2, kwargs |-> d2]

\* the redaction of __call__: safe_kwargs, and the caller's kwargs as they
\* are afterwards (the deletions are made on a copy)
redact(kwargs) ==
    IF HasKey(kwargs, Passwd) \/ HasKey(kwargs, Password)
    THEN LET copy == kwargs
             d1 == IF HasKey(copy, Passwd) THEN DelKey(copy, Passwd) ELSE copy
             d2 == IF HasKey(d1, Password) THEN DelKey(d1, Password) ELSE d1
         IN [safe_kwargs |-> d2, kwargs |-> kwargs]
    ELSE [safe_kwargs |-> kwargs, kwargs |-> kwargs]

\* connect_params_of, had only args been tested
connect_params_mut_args_only(args, safe_kwargs) ==
    IF Len(args) > 0 THEN PyPair(args, safe_kwargs) ELSE None

\* connect_params = (args, safe_kwargs) if args or safe_kwargs else None
connect_params_of(args, safe_kwargs) ==
    IF Len(args) > 0 \/ Len(safe_kwargs) > 0 THEN PyPair(args, safe_kwargs) ELSE None

\* ConnectionWrapper.__init__ / ContextManagerConnectionWrapper.__init__
ConnectionWrapper_init(ctor, connection, connect_params) ==
    [kind |-> ctor, connection |-> connection, connect_params |-> connect_params]

\* CursorWrapper.__init__
CursorWrapper_init(cursor, connect_params, cursor_params) ==
    [kind |-> "CursorWrapper", cursor |-> cursor,
     connect_params |-> connect_params, cursor_params |-> cursor_params]

\* ConnectionFactory.__call__(*args, **kwargs); out is what connect_func does
ConnectionFactory_call(args, kwargs, out) ==
    LET r == redact(kwargs)
        connect_params == connect_params_of(args, r.safe_kwargs)
        body == [events |-> <<RealEvent("connect", args, r.kwargs, out)>>,
                 outcome |->
                     IF out.kind = "return"
                     THEN Return(ConnectionWrapper_init(factory.wrapper_ctor, out.val,
                                                        connect_params))
                     ELSE out]
        w == WithScope(func_span(factory.connect_func_name), body)
    IN /\ ncalls < MaxCalls
       /\ spans' = w.spans
       /\ call' = [op |-> "connect", in |-> <<args, kwargs>>,
                   trace |-> w.trace, outcome |-> w.outcome]
       /\ conn' = IF w.outcome.kind = "return" THEN w.outcome.val ELSE conn
       /\ ncalls' = ncalls + 1
       /\ UNCHANGED <<ambient, factory, cur>>

(***************************************************************************)
(* ConnectionWrapper                                                       *)
(***************************************************************************)
\* cursor_params=(args, kwargs) if args or kwargs else None
cursor_params_of(args, kwargs) ==
    IF Len(args) > 0 \/ Len(kwargs) > 0 THEN PyPair(args, kwargs) ELSE None

\* ConnectionWrapper.cursor(*args, **kwargs): no scope around the real call
ConnectionWrapper_cursor(args, kwargs, out) ==
    /\ conn # NoConn
    /\ call' = [op |-> "cursor", in |-> <<args, kwargs>>,
                trace |-> <<RealEvent("cursor", args, kwargs, out)>>,
                outcome |->
                    IF out.kind = "return"
                    THEN Return(CursorWrapper_init(out.val, conn.connect_params,
                                                   cursor_params_of(args, kwargs)))
                    ELSE out]
    /\ cur' = IF call'.outcome.kind = "return" THEN call'.outcome.val ELSE cur
    /\ UNCHANGED <<ambient, factory, conn, spans, ncalls>>

\* commit_scope, had commit() delegated without a span
commit_scope_mut_untraced == NoopScope

\* the scope of commit(): db_span(sql_statement=_COMMIT, module_name=...)
commit_scope == db_span(COMMIT, None, None, None)

\* the scope of rollback()
rollback_scope == db_span(ROLLBACK, None, None, None)

\* commit_body, had the driver's exception been swallowed
commit_body_mut_swallow(out) ==
    [events |-> <<RealEvent("commit", <<>>, <<>>, out)>>,
     outcome |-> IF out.kind = "raise" THEN Return("None") ELSE out]

\* return self._connection.commit()
commit_body(out) ==
    [events |-> <<RealEvent("commit", <<>>, <<>>, out)>>, outcome |-> out]

\* return self._connection.rollback()
rollback_body(out) ==
    [events |-> <<RealEvent("rollback", <<>>, <<>>, out)>>, outcome |-> out]

\* ConnectionWrapper.commit()
ConnectionWrapper_commit(out, werr) ==
    LET w == With(commit_scope, commit_body(out), werr)
    IN /\ conn # NoConn
       /\ ncalls < MaxCalls
       /\ spans' = w.spans
       /\ call' = [op |-> "commit", in |-> <<>>, trace |-> w.trace,
                   outcome |-> w.outcome]
       /\ ncalls' = ncalls + 1
       /\ UNCHANGED <<ambient, factory, conn, cur>>

\* ConnectionWrapper.rollback()
ConnectionWrapper_rollback(out, werr) ==
    LET w == With(rollback_scope, rollback_body(out), werr)
    IN /\ conn # NoConn
       /\ ncalls < MaxCalls
       /\ spans' = w.spans
       /\ call' = [op |-> "rollback", in |-> <<>>, trace |-> w.trace,
                   outcome |-> w.outcome]
       /\ ncalls' = ncalls + 1
       /\ UNCHANGED <<ambient, factory, conn, cur>>

(***************************************************************************)
(* ContextManagerConnectionWrapper                                         *)
(***************************************************************************)
\* ContextManagerConnectionWrapper.__enter__()
ContextManagerConnectionWrapper_enter(out) ==
    LET body == [events |-> <<RealEvent("__enter__", <<>>, <<>>, out)>>,
                 outcome |-> out]
        w == WithScope(func_span(Fmt2(ModuleName, BeginTransaction)), body)
    IN /\ conn # NoConn
       /\ conn.kind = "ContextManagerConnectionWrapper"
       /\ ncalls < MaxCalls
       /\ spans' = w.spans
       /\ call' = [op |-> "__enter__", in |-> <<>>, trace |-> w.trace,
                   outcome |->
                       IF w.outcome.kind = "return"
                       THEN Return(CursorWrapper_init(w.outcome.val,
                                                      conn.connect_params, None))
                       ELSE w.outcome]
       /\ cur' = IF call'.outcome.kind = "return" THEN call'.outcome.val ELSE cur
       /\ ncalls' = ncalls + 1
       /\ UNCHANGED <<ambient, factory, conn>>

\* exit_outcome, with the two keywords swapped
exit_outcome_mut_swapped(exc) == IF exc = None THEN ROLLBACK ELSE COMMIT

\* outcome = _COMMIT if exc is None else _ROLLBACK
exit_outcome(exc) == IF exc = None THEN COMMIT ELSE ROLLBACK

\* ContextManagerConnectionWrapper.__exit__(exc, value, tb)
ContextManagerConnectionWrapper_exit(info, out, werr) ==
    LET body == [events |-> <<RealEvent("__exit__", info, <<>>, out)>>,
                 outcome |-> out]
        w == With(db_span(exit_outcome(info[1]), None, None, None), body, werr)
    IN /\ conn # NoConn
       /\ conn.kind = "ContextManagerConnectionWrapper"
       /\ ncalls < MaxCalls
       /\ spans' = w.spans
       /\ call' = [op |-> "__exit__", in |-> info, trace |-> w.trace,
                   outcome |-> w.outcome]
       /\ ncalls' = ncalls + 1
       /\ UNCHANGED <<ambient, factory, conn, cur>>

(***************************************************************************)
(* CursorWrapper                                                           *)
(***************************************************************************)
\* sql_parameters=params if params is not NO_ARG else None
sql_parameters_of(params) == IF params # NO_ARG THEN params ELSE None

\* if params is NO_ARG: return self._cursor.execute(sql)
\* else: return self._cursor.execute(sql, params)
execute_body(sql, params, out) ==
    [events |-> <<IF params = NO_ARG
                  THEN RealEvent("execute", <<sql>>, <<>>, out)
                  ELSE RealEvent("execute", <<sql, params>>, <<>>, out)>>,
     outcome |-> out]

\* return self._cursor.executemany(sql, seq_of_parameters)
executemany_body(sql, seq_of_parameters, out) ==
    [events |-> <<RealEvent("executemany", <<sql, seq_of_parameters>>, <<>>, out)>>,
     outcome |-> out]

\* if params is NO_ARG: return self._cursor.callproc(proc_name)
\* else: return self._cursor.callproc(proc_name, params)
callproc_body(proc_name, params, out) ==
    [events |-> <<IF params = NO_ARG
                  THEN RealEvent("callproc", <<proc_name>>, <<>>, out)
                  ELSE RealEvent("callproc", <<proc_name, params>>, <<>>, out)>>,
     outcome |-> out]

\* CursorWrapper.execute(sql, params=NO_ARG)
CursorWrapper_execute(sql, params, out, werr) ==
    /\ cur # NoCursor
    /\ ncalls < MaxCalls
    /\ LET w == With(db_span(sql, sql_parameters_of(params), cur.connect_params,
                             cur.cursor_params),
                     execute_body(sql, params, out), werr)
       IN /\ spans' = w.spans
          /\ call' = [op |-> "execute", in |-> <<sql, params>>, trace |-> w.trace,
                      outcome |-> w.outcome]
    /\ ncalls' = ncalls + 1
    /\ UNCHANGED <<ambient, factory, conn, cur>>

\* CursorWrapper.executemany(sql, seq_of_parameters)
CursorWrapper_executemany(sql, seq_of_parameters, out, werr) ==
    /\ cur # NoCursor
    /\ ncalls < MaxCalls
    /\ LET w == With(db_span(sql, seq_of_parameters, cur.connect_params,
                             cur.cursor_params),
                     executemany_body(sql, seq_of_parameters, out), werr)
       IN /\ spans' = w.spans
          /\ call' = [op |-> "executemany", in |-> <<sql, seq_of_parameters>>,
                      trace |-> w.trace, outcome |-> w.outcome]
    /\ ncalls' = ncalls + 1
    /\ UNCHANGED <<ambient, factory, conn, cur>>

\* CursorWrapper.callproc(proc_name, params=NO_ARG)
CursorWrapper_callproc(proc_name, params, out, werr) ==
    /\ cur # NoCursor
    /\ ncalls < MaxCalls
    /\ LET w == With(db_span(SprocPrefix \o proc_name, sql_parameters_of(params),
                             cur.connect_params, cur.cursor_params),
                     callproc_body(proc_name, params, out), werr)
       IN /\ spans' = w.spans
          /\ call' = [op |-> "callproc", in |-> <<proc_name, params>>,
                      trace |-> w.trace, outcome |-> w.outcome]
    /\ ncalls' = ncalls + 1
    /\ UNCHANGED <<ambient, factory, conn, cur>>

(***************************************************************************)
(* Specifications.                                                         *)
(*                                                                         *)
(* Spec: a caller using one factory: connect, cursor, then any sequence of *)
(* wrapper calls, with a small set of inputs per call.                     *)
(***************************************************************************)
SeqKwargs == {<<>>, <<<<Password, 1>>>>}
SeqParams == {NO_ARG, PyList(<<>>), PyList(<<1>>)}
SeqParamSeqs == {PyListList(<<<<1>>>>)}

Init ==
    /\ ambient \in BOOLEAN
    /\ factory \in {ConnectionFactory_init(f, c) :
                       f \in ConnectFuncs,
                       c \in {"None", "ContextManagerConnectionWrapper"}}
    /\ conn = NoConn
    /\ cur = NoCursor
    /\ spans = <<>>
    /\ call = NoCall
    /\ ncalls = 0

Connect ==
    \E kwargs \in SeqKwargs, out \in Outcomes({"rawconn"}) :
        ConnectionFactory_call(<<>>, kwargs, out)

Cursor ==
    \E out \in Outcomes({"rawcursor"}) : ConnectionWrapper_cursor(<<>>, <<>>, out)

Commit ==
    \E out \in Outcomes(RetVals), werr \in WithErrors : ConnectionWrapper_commit(out, werr)

Rollback ==
    \E out \in Outcomes(RetVals), werr \in WithErrors :
        ConnectionWrapper_rollback(out, werr)

Enter ==
    \E out \in Outcomes({"rawcursor"}) : ContextManagerConnectionWrapper_enter(out)

Exit ==
    \E info \in ExcInfos, out \in Outcomes(RetVals), werr \in WithErrors :
        ContextManagerConnectionWrapper_exit(info, out, werr)

Execute ==
    \E params \in SeqParams, out \in Outcomes(RetVals), werr \in WithErrors :
        CursorWrapper_execute(Select1, params, out, werr)

Executemany ==
    \E seq \in SeqParamSeqs, out \in Outcomes(RetVals), werr \in WithErrors :
        CursorWrapper_executemany(Select1, seq, out, werr)

Callproc ==
    \E params \in SeqParams, out \in Outcomes(RetVals), werr \in WithErrors :
        CursorWrapper_callproc(<<"p">>, params, out, werr)

Next ==
    \/ Connect
    \/ Cursor
    \/ Commit
    \/ Rollback
    \/ Enter
    \/ Exit
    \/ Execute
    \/ Executemany
    \/ Callproc

Spec == Init /\ [][Next]_vars

(***************************************************************************)
(* SpecDbSpan: one call of a db_span-instrumented method, on wrappers      *)
(* constructed directly, with the statement and the parameters drawn from  *)
(* Statements, Params and ParamSeqs.                                       *)
(***************************************************************************)
DbConnectParams == {None, PyPair(<<1>>, <<<<Host, 1>>>>)}
DbCursorParams == {None, PyPair(<<1>>, <<>>)}

InitDbSpan ==
    /\ ambient \in BOOLEAN
    /\ factory = ConnectionFactory_init(CHOOSE f \in ConnectFuncs : f.has_name, "None")
    /\ \E cp \in DbConnectParams, curp \in DbCursorParams :
          /\ conn = ConnectionWrapper_init("ContextManagerConnectionWrapper",
                                           "rawconn", cp)
          /\ cur = CursorWrapper_init("rawcursor", cp, curp)
    /\ spans = <<>>
    /\ call = NoCall
    /\ ncalls = 0

DbExecute ==
    \E sql \in Statements, params \in Params, out \in Outcomes(RetVals),
       werr \in WithErrors :
        CursorWrapper_execute(sql, params, out, werr)

DbExecutemany ==
    \E sql \in Statements, seq \in ParamSeqs, out \in Outcomes(RetVals),
       werr \in WithErrors :
        CursorWrapper_executemany(sql, seq, out, werr)

DbCallproc ==
    \E name \in ProcNames, params \in Params, out \in Outcomes(RetVals),
       werr \in WithErrors :
        CursorWrapper_callproc(name, params, out, werr)

NextDbSpan ==
    /\ call = NoCall
    /\ \/ DbExecute
       \/ DbExecutemany
       \/ DbCallproc
       \/ Commit
       \/ Rollback
       \/ Exit

SpecDbSpan == InitDbSpan /\ [][NextDbSpan]_vars

(***************************************************************************)
(* SpecConnect: the factory called with every args / kwargs combination     *)
(* until a connection is made, then cursors taken from the connection      *)
(* wrapper by cursor() and by __enter__.                                   *)
(***************************************************************************)
CnConnect ==
    /\ conn = NoConn
    /\ \E args \in AllArgs, kwargs \in AllKwargs, out \in Outcomes({"rawconn"}) :
          ConnectionFactory_call(args, kwargs, out)

CnCursor ==
    \E args \in AllArgs, kwargs \in {<<>>, <<<<Host, 1>>>>},
       out \in Outcomes({"rawcursor"}) :
        ConnectionWrapper_cursor(args, kwargs, out)

NextConnect ==
    \/ CnConnect
    \/ CnCursor
    \/ Enter

SpecConnect == Init /\ [][NextConnect]_vars

(***************************************************************************)
(* Properties.                                                             *)
(***************************************************************************)
\* the methods whose scope comes from db_span
DbSpanOps == {"execute", "executemany", "callproc", "commit", "rollback", "__exit__"}

\* the real driver calls made during the last wrapper call
RealEvents(tr) == SelectSeq(tr, LAMBDA ev : ev.e = "real")

\* the span most recently started
LastSpan == spans[Len(spans)]

\* the last call ran as: span start, one real driver call, span finish,
\* and the span is the newest one
TracedOnce ==
    /\ Len(call.trace) = 3
    /\ Len(spans) > 0
    /\ call.trace[1] = StartEvent(Len(spans))
    /\ call.trace[2].e = "real"
    /\ call.trace[3].e = "finish"
    /\ call.trace[3].span = Len(spans)

\* the statement the last cursor call handed to db_span
StatementOf ==
    IF call.op = "callproc" THEN SprocPrefix \o call.in[1] ELSE call.in[1]

HasSpace(s) == \E i \in 1..Len(s) : s[i] = " "

\* s up to, and excluding, its first space (s has one)
BeforeFirstSpace(s) ==
    LET i == CHOOSE k \in 1..Len(s) : s[k] = " " /\ \A j \in 1..(k - 1) : s[j] # " "
    IN SubSeq(s, 1, i - 1)

\* kwargs without the credential keys
Redacted(kw) == SelectSeq(kw, LAMBDA p : p[1] \notin {Passwd, Password})

NoCredentials(cp) ==
    \/ cp = None
    \/ /\ ~HasKey(cp.kwargs, Passwd)
       /\ ~HasKey(cp.kwargs, Password)

\* C1 (as claimed): without a current span, a db_span-instrumented call
\* makes the real driver call exactly once, ends as that call ended (same
\* return value or same exception), and starts no span.
C1_NoAmbientCallIsTransparent ==
    (~ambient /\ call.op \in DbSpanOps) =>
        /\ Len(RealEvents(call.trace)) = 1
        /\ call.outcome = RealEvents(call.trace)[1].out
        /\ spans = <<>>

\* C2 (as claimed): with a current span, execute(sql) gives a span without
\* the sql.params tag, and execute(sql, params) with a supplied list, the
\* empty list included, gives a span tagged sql.params = str(params).
C2_SuppliedParamsAreTagged ==
    (ambient /\ call.op = "execute") =>
        /\ call.in[2] = NO_ARG => TagParams \notin DOMAIN LastSpan.tags
        /\ call.in[2].t = "list" =>
              /\ TagParams \in DOMAIN LastSpan.tags
              /\ LastSpan.tags[TagParams] = PyStr(call.in[2])

\* C2 (amended): with a current span, execute(sql) gives a span without the
\* sql.params tag; execute(sql, params) with a non-empty list gives a span
\* tagged sql.params = str(params) ("[1, 0]" for [1, 0]); execute(sql,
\* params) with a supplied zero-length list or None gives a span without
\* the sql.params tag, as when params is omitted.
C2_NonEmptyParamsAreTagged ==
    (ambient /\ call.op = "execute") =>
        /\ call.in[2] = NO_ARG => TagParams \notin DOMAIN LastSpan.tags
        /\ call.in[2] \in {None, PyList(<<>>)} => TagParams \notin DOMAIN LastSpan.tags
        /\ (call.in[2].t = "list" /\ call.in[2].v # <<>>) =>
              /\ TagParams \in DOMAIN LastSpan.tags
              /\ LastSpan.tags[TagParams] = PyStr(call.in[2])
        /\ call.in[2] = PyList(<<1, 0>>) =>
              LastSpan.tags[TagParams] = <<"[", "1", ",", " ", "0", "]">>

\* C2 witness: execute(sql, []) ran under a current span and its span has
\* no sql.params tag
C2_Witness ==
    /\ ambient
    /\ call.op = "execute"
    /\ call.in[2] = PyList(<<>>)
    /\ Len(spans) = 1
    /\ TagParams \notin DOMAIN LastSpan.tags

\* C3 (as claimed): with a current span, for a statement S other than the
\* literal commit / rollback: if the first space of S is at index i > 0 the
\* span is named <module>:S[0:i]; if S has no space it is named <module>:
\* (empty token); the call does not fail in the instrumentation.
C3_TokenIsPrefixOfRawStatement ==
    (ambient /\ call.op \in {"execute", "executemany", "callproc"}
       /\ StatementOf \notin {COMMIT, ROLLBACK}) =>
        /\ TracedOnce
        /\ call.outcome = call.trace[2].out
        /\ (HasSpace(StatementOf) /\ StatementOf[1] # " ") =>
              LastSpan.name = Fmt2(ModuleName, BeforeFirstSpace(StatementOf))
        /\ ~HasSpace(StatementOf) => LastSpan.name = Fmt2(ModuleName, <<>>)

\* C3 (amended): with a current span, for a statement S other than the
\* literal commit / rollback, let T be S without its leading and trailing
\* whitespace: if T contains a space the span is named <module>:<T up to its
\* first space>; if T contains no space it is named <module>: (empty
\* token); the call does not fail in the instrumentation.
C3_TokenIsPrefixOfTrimmedStatement ==
    (ambient /\ call.op \in {"execute", "executemany", "callproc"}
       /\ StatementOf \notin {COMMIT, ROLLBACK}) =>
        /\ TracedOnce
        /\ call.outcome = call.trace[2].out
        /\ HasSpace(Strip(StatementOf)) =>
              LastSpan.name = Fmt2(ModuleName, BeforeFirstSpace(Strip(StatementOf)))
        /\ ~HasSpace(Strip(StatementOf)) => LastSpan.name = Fmt2(ModuleName, <<>>)

\* C3 witness: a statement with surrounding whitespace and an inner space
\* was executed under a current span and the span is named <module>:SELECT
C3_Witness ==
    /\ ambient
    /\ call.op = "execute"
    /\ call.in[1] = <<"\t">> \o Select1 \o <<" ">>
    /\ LastSpan.name = Fmt2(ModuleName, <<"S", "E", "L", "E", "C", "T">>)

\* C4: with a current span, a db_span call for the statement commit or
\* rollback gives a span named <module>:commit / <module>:rollback without
\* a sql tag, and a db_span call for any other statement gives a span whose
\* sql tag is the statement without leading and trailing whitespace.
C4_SqlTagUnlessCommitOrRollback ==
    (ambient /\ call.op \in DbSpanOps) =>
        /\ TracedOnce
        /\ call.op = "commit" =>
              /\ LastSpan.name = Fmt2(ModuleName, COMMIT)
              /\ TagSql \notin DOMAIN LastSpan.tags
        /\ call.op = "rollback" =>
              /\ LastSpan.name = Fmt2(ModuleName, ROLLBACK)
              /\ TagSql \notin DOMAIN LastSpan.tags
        /\ call.op = "__exit__" =>
              /\ LastSpan.name \in {Fmt2(ModuleName, COMMIT), Fmt2(ModuleName, ROLLBACK)}
              /\ TagSql \notin DOMAIN LastSpan.tags
        /\ call.op \in {"execute", "executemany", "callproc"} =>
              IF StatementOf \in {COMMIT, ROLLBACK}
              THEN /\ LastSpan.name = Fmt2(ModuleName, StatementOf)
                   /\ TagSql \notin DOMAIN LastSpan.tags
              ELSE /\ TagSql \in DOMAIN LastSpan.tags
                   /\ LastSpan.tags[TagSql] = Strip(StatementOf)

\* C4 witness: " commit" (not the literal) was executed under a current
\* span and carries the sql tag "commit"
C4_Witness ==
    /\ ambient
    /\ call.op = "execute"
    /\ call.in[1] = <<" ">> \o COMMIT
    /\ TagSql \in DOMAIN LastSpan.tags
    /\ LastSpan.tags[TagSql] = COMMIT

\* C5: the connect_params of every connection wrapper and of every cursor
\* wrapper made from it holds neither password nor passwd, and the real
\* connect function receives the caller's args and the caller's kwargs,
\* credentials included, which are left as the caller passed them.
C5_CredentialsRedactedOnlyInRecord ==
    /\ conn # NoConn => NoCredentials(conn.connect_params)
    /\ cur # NoCursor =>
          /\ NoCredentials(cur.connect_params)
          /\ cur.connect_params = conn.connect_params
    /\ call.op = "connect" =>
          /\ Len(RealEvents(call.trace)) = 1
          /\ RealEvents(call.trace)[1].args = call.in[1]
          /\ RealEvents(call.trace)[1].kwargs = call.in[2]
          /\ call.outcome.kind = "return" =>
                /\ conn = call.outcome.val
                /\ NoCredentials(call.outcome.val.connect_params)

\* C5 witness: a connect with host and password succeeded; the wrapper
\* records the host only, the driver received both
C5_Witness ==
    /\ call.op = "connect"
    /\ call.outcome.kind = "return"
    /\ HasKey(call.in[2], Password)
    /\ HasKey(call.in[2], Host)
    /\ HasKey(RealEvents(call.trace)[1].kwargs, Password)
    /\ conn.connect_params # None
    /\ HasKey(conn.connect_params.kwargs, Host)

\* C6 (as claimed): the recorded connect_params is None when the caller's
\* args and the caller's kwargs are both empty, else (args, redacted kwargs).
C6_NoneIffCallerArgsAndKwargsEmpty ==
    (call.op = "connect" /\ call.outcome.kind = "return") =>
        conn.connect_params =
            IF call.in[1] = <<>> /\ call.in[2] = <<>>
            THEN None
            ELSE PyPair(call.in[1], Redacted(call.in[2]))

\* C6 (amended): the recorded connect_params is None when the caller's args
\* and the redacted kwargs (the caller's kwargs minus password / passwd) are
\* both empty, else (args, redacted kwargs).
C6_NoneIffArgsAndRedactedKwargsEmpty ==
    (call.op = "connect" /\ call.outcome.kind = "return") =>
        conn.connect_params =
            IF call.in[1] = <<>> /\ Redacted(call.in[2]) = <<>>
            THEN None
            ELSE PyPair(call.in[1], Redacted(call.in[2]))

\* C6 witness: connect(password=1) succeeded and records None
C6_Witness ==
    /\ call.op = "connect"
    /\ call.outcome.kind = "return"
    /\ call.in[1] = <<>>
    /\ call.in[2] = <<<<Password, 1>>>>
    /\ conn.connect_params = None

\* C7: with a current span, the calls made so far produced exactly one
\* span per instrumented call, in call order; the span of a call is started
\* before and finished after its real driver call, so every span is
\* finished when the call returns; cursor() starts no span; connect, execute
\* of "SELECT 1" and commit name their spans <module>:<connect-func name>,
\* <module>:SELECT and <module>:commit.
C7_OneClosedSpanPerCallInOrder ==
    ambient =>
        /\ Len(spans) = ncalls
        /\ \A i \in 1..Len(spans) : spans[i].finished
        /\ call.op \in (DbSpanOps \cup {"connect", "__enter__"}) => TracedOnce
        /\ call.op = "cursor" => \A i \in 1..Len(call.trace) : call.trace[i].e = "real"
        /\ call.op = "connect" => LastSpan.name = factory.connect_func_name
        /\ call.op = "commit" => LastSpan.name = Fmt2(ModuleName, COMMIT)
        /\ call.op = "rollback" => LastSpan.name = Fmt2(ModuleName, ROLLBACK)
        /\ (call.op = "execute" /\ call.in[1] = Select1) =>
              LastSpan.name = Fmt2(ModuleName, <<"S", "E", "L", "E", "C", "T">>)

\* C7 witness: connect, cursor().execute("SELECT 1"), commit() were made
\* under a current span and left exactly the three spans, in order
C7_Witness ==
    /\ ambient
    /\ call.op = "commit"
    /\ Len(spans) = 3
    /\ spans[1].name = Fmt2(ModuleName, <<"c", "o", "n", "n", "e", "c", "t">>)
    /\ spans[2].name = Fmt2(ModuleName, <<"S", "E", "L", "E", "C", "T">>)
    /\ spans[3].name = Fmt2(ModuleName, COMMIT)
    /\ \A i \in 1..3 : spans[i].finished

\* C8: with a current span, for connect, execute, executemany, callproc,
\* commit and rollback: when the real driver call raises, the call's span is
\* marked failed and finished and the call raises that same exception (a
\* failed connect returns no wrapper); when it returns, the call returns its
\* value (connect: a wrapper around it) and the span is not marked failed.
C8_DriverOutcomePassesThrough ==
    (ambient /\ call.op \in {"connect", "execute", "executemany", "callproc",
                             "commit", "rollback"}) =>
        /\ TracedOnce
        /\ call.trace[2].out.kind = "raise" =>
              /\ call.trace[3].error
              /\ LastSpan.error
              /\ LastSpan.finished
              /\ call.outcome = call.trace[2].out
        /\ call.trace[2].out.kind = "return" =>
              /\ ~LastSpan.error
              /\ LastSpan.finished
              /\ call.outcome.kind = "return"
              /\ IF call.op = "connect"
                 THEN /\ call.outcome.val.connection = call.trace[2].out.val
                      /\ conn = call.outcome.val
                 ELSE call.outcome.val = call.trace[2].out.val

\* C8 witness: a commit whose real call raised, under a current span
C8_Witness ==
    /\ ambient
    /\ call.op = "commit"
    /\ TracedOnce
    /\ call.outcome = Raise("OperationalError")
    /\ LastSpan.error

\* C9 (as claimed): execute and callproc call the real cursor method with
\* exactly the caller's arguments: the sql / procedure name alone when
\* params was omitted, and (name, params) with the caller's params value
\* when it was supplied.
C9_RealCallGetsCallerArguments ==
    call.op \in {"execute", "callproc"} =>
        /\ Len(RealEvents(call.trace)) = 1
        /\ RealEvents(call.trace)[1].kwargs = <<>>
        /\ RealEvents(call.trace)[1].args =
              IF call.in[2] = NO_ARG THEN <<call.in[1]>> ELSE <<call.in[1], call.in[2]>>

\* C10: with a current span, __enter__ runs the real enter call inside one
\* <module>:begin_transaction span and returns a cursor wrapper over what it
\* yields; __exit__ runs the real exit call, with the caller's (exc, value,
\* tb), inside exactly one span, named <module>:commit when exc is None and
\* <module>:rollback otherwise, and ends exactly as the real exit call ends.
C10_TransactionScopeSpans ==
    (ambient /\ call.op \in {"__enter__", "__exit__"}) =>
        /\ TracedOnce
        /\ call.trace[2].op = call.op
        /\ call.op = "__enter__" =>
              /\ LastSpan.name = Fmt2(ModuleName, BeginTransaction)
              /\ call.trace[2].out.kind = "return" =>
                    /\ call.outcome =
                          Return(CursorWrapper_init(call.trace[2].out.val,
                                                    conn.connect_params, None))
                    /\ cur = call.outcome.val
              /\ call.trace[2].out.kind = "raise" => call.outcome = call.trace[2].out
        /\ call.op = "__exit__" =>
              /\ LastSpan.name =
                    IF call.in[1] = None
                    THEN Fmt2(ModuleName, COMMIT)
                    ELSE Fmt2(ModuleName, ROLLBACK)
              /\ call.trace[2].args = call.in
              /\ call.outcome = call.trace[2].out

\* C10 witness: under a current span, __exit__ after a block that raised
\* ran in a <module>:rollback span and returned the real exit's True
C10_Witness ==
    /\ ambient
    /\ call.op = "__exit__"
    /\ call.in = ExcInfo
    /\ LastSpan.name = Fmt2(ModuleName, ROLLBACK)
    /\ call.outcome = Return("True")

====
